---- MODULE Spec2Model ----
(***************************************************************************)
(* State-machine model of two scripts of the repository:                   *)
(*                                                                         *)
(*   problog_test.py  reads pairwise_closeness.csv and, for every unique   *)
(*                    timestep, assembles a ProbLog program text, prints   *)
(*                    it, compiles it, evaluates it under a timer and      *)
(*                    prints the result (specification Spec);              *)
(*   viz_simfreq.py   walks a 7x7 grid of axes twice, plotting one column  *)
(*                    f<index> in every cell below the diagonal, and       *)
(*                    binarizes the columns f0..f41 between the two        *)
(*                    passes (specification SpecGrid).                     *)
(*                                                                         *)
(* The program counter of each script is the number of the source line     *)
(* that executes next.  Probabilities are exact rationals: a p_close value *)
(* is its numerator over Den.  NaN (a missing CSV field) is modelled by    *)
(* the value NaN, which compares unequal to everything, itself included.   *)
(***************************************************************************)
EXTENDS Integers, Sequences, FiniteSets, TLC

VARIABLES data, pc, k, timestamp, model, simultaneous, r, executor, start,
          result, elapsed, stdout, trace, err,
          gdata, gdata0, gtime, gcow, gpc, gfig, gi, gj, gindex, gbin, gdeleted,
          gplots, gerr

pvars == <<data, pc, k, timestamp, model, simultaneous, r, executor, start,
           result, elapsed, stdout, trace, err>>
gvars == <<gdata, gdata0, gtime, gcow, gpc, gfig, gi, gj, gindex, gbin, gdeleted,
           gplots, gerr>>
vars == <<pvars, gvars>>

(***************************************************************************)
(* Bounds and input domains                                                *)
(***************************************************************************)
MaxRows == 3

Den == 2
NaN == 0
Undef == -1

\* p_close numerators over Den: the values of [0,1] in steps of 1/Den, and
\* one value above 1
InRangeP == 0..Den
OutOfRangeP == {Den + 1}

\* identifiers: lower-case atoms, and one that starts with an upper-case
\* letter, which the program grammar reads as a logic variable
Atoms == {"a", "b", "c"}
VarIds == {"X"}

Rows ==
    [t : {1, 2}, d1 : {"a"}, d2 : {"b", "c"}, p : InRangeP]
    \cup [t : {1, 2}, d1 : {"a"}, d2 : {"b"}, p : OutOfRangeP]
    \cup [t : {1, 2}, d1 : VarIds, d2 : {"b"}, p : {1}]
    \cup [t : {NaN}, d1 : {"a"}, d2 : {"b"}, p : {1}]

SeqsUpTo(S, n) == UNION {[1..m -> S] : m \in 0..n}

(***************************************************************************)
(* pandas helpers                                                          *)
(***************************************************************************)
\* data["t"] == timestamp, elementwise: NaN is equal to nothing
PdEq(a, b) == a # NaN /\ b # NaN /\ a = b

\* variant: only a run of equal neighbours is collapsed
RECURSIVE UniqueAdjacent(_)
UniqueAdjacent(s) ==
    IF s = <<>> THEN <<>>
    ELSE LET init == UniqueAdjacent(SubSeq(s, 1, Len(s) - 1))
             x == s[Len(s)]
         IN IF Len(s) > 1 /\ s[Len(s) - 1] = x THEN init ELSE Append(init, x)

\* membership as Series.unique() decides it: all NaN are one value
RECURSIVE Unique(_)
Unique(s) ==
    IF s = <<>> THEN <<>>
    ELSE LET init == Unique(SubSeq(s, 1, Len(s) - 1))
             x == s[Len(s)]
         IN IF \E n \in 1..Len(init) : init[n] = x THEN init ELSE Append(init, x)

TCol(d) == [n \in 1..Len(d) |-> d[n].t]

\* variant: a row that repeats the (d1, d2) pair of an earlier selected row
\* is dropped
SimultaneousDropDuplicates(d, ts) ==
    LET Sel == {n \in 1..Len(d) : PdEq(d[n].t, ts)}
        Keep == {n \in Sel : ~\E m \in Sel : m < n /\ d[m].d1 = d[n].d1 /\ d[m].d2 = d[n].d2}
        RECURSIVE Build(_)
        Build(n) == IF n = 0 THEN <<>>
                    ELSE IF n \in Keep THEN Append(Build(n - 1), d[n]) ELSE Build(n - 1)
    IN Build(Len(d))

\* data[data["t"] == timestamp]
KeepRow(row, ts) == PdEq(row.t, ts)
Simultaneous(d, ts) == SelectSeq(d, LAMBDA row : KeepRow(row, ts))

(***************************************************************************)
(* Program text: a sequence of lines                                       *)
(***************************************************************************)
\* variant: the two identifiers are written in the other order
FactLineSwapped(row) == <<"close", row.p, row.d2, row.d1>>

EmptyModel == <<>>

\* f'{row["p_close"]}::close({row["d1"]}, {row["d2"]}).\n'
FactLine(row) == <<"close", row.p, row.d1, row.d2>>
RuleLine == <<"unsafe :- close(X, Y).">>
QueryLine == <<"query(unsafe).">>

IsFact(line) == line[1] = "close"
FactsOf(text) == SelectSeq(text, IsFact)

(***************************************************************************)
(* The inference library, as the script uses it                            *)
(***************************************************************************)
RECURSIVE Prod(_, _)
Prod(w, S) ==
    IF S = {} THEN 1
    ELSE LET n == CHOOSE x \in S : TRUE IN w[n] * Prod(w, S \ {n})

RECURSIVE Pow(_, _)
Pow(b, n) == IF n = 0 THEN 1 ELSE b * Pow(b, n - 1)

\* create_from(PrologString(model)): parse and ground the query.  A call to
\* close/2 with no clause at all is an error; so is a probabilistic fact
\* whose argument is a variable.  Every fact in the text is its own
\* independent choice, also when two facts are textually identical.
CreateFrom(text) ==
    LET facts == FactsOf(text) IN
    IF facts = <<>> THEN [ok |-> FALSE, error |-> "UnknownClause", weights |-> <<>>]
    ELSE IF \E n \in 1..Len(facts) : facts[n][3] \in VarIds \/ facts[n][4] \in VarIds
         THEN [ok |-> FALSE, error |-> "NonGroundProbabilisticClause", weights |-> <<>>]
         ELSE [ok |-> TRUE, error |-> "none",
               weights |-> [n \in 1..Len(facts) |-> facts[n][2]]]

\* evaluate(): weighted model count of the worlds in which unsafe holds, that
\* is, in which at least one close fact is chosen.  A weight outside [0,1]
\* is rejected.
WMC(w) ==
    LET N == 1..Len(w)
        Worlds == (SUBSET N) \ {{}}
        Weight(S) == Prod(w, S) * Prod([n \in N |-> Den - w[n]], N \ S)
        RECURSIVE Sum(_)
        Sum(Ws) == IF Ws = {} THEN 0
                   ELSE LET S == CHOOSE x \in Ws : TRUE IN Weight(S) + Sum(Ws \ {S})
    IN Sum(Worlds)

Evaluate(ex) ==
    IF \E n \in 1..Len(ex.weights) : ex.weights[n] < 0 \/ ex.weights[n] > Den
    THEN [ok |-> FALSE, error |-> "InvalidValue", num |-> 0, den |-> 1]
    ELSE [ok |-> TRUE, error |-> "none",
          num |-> WMC(ex.weights), den |-> Pow(Den, Len(ex.weights))]

\* time(): the number of statements executed so far
Time == Len(trace)

(***************************************************************************)
(* problog_test.py                                                         *)
(***************************************************************************)
Exit == 32
NoExecutor == [ok |-> FALSE, error |-> "none", weights |-> <<>>]
NoResult == [ok |-> FALSE, error |-> "none", num |-> 0, den |-> 1]

\* variant: the timer is started before the program is compiled
NextLineTimerEarly(l) ==
    CASE l = 13 -> 14
      [] l = 14 -> 16
      [] l = 17 -> 16
      [] l = 19 -> 20
      [] l = 20 -> 22
      [] l = 22 -> 26
      [] l = 26 -> 24
      [] l = 24 -> 27
      [] l = 27 -> 28
      [] l = 28 -> 30
      [] l = 30 -> 12

\* straight-line control flow: the line that follows line l
NextLine(l) ==
    CASE l = 13 -> 14
      [] l = 14 -> 16
      [] l = 17 -> 16
      [] l = 19 -> 20
      [] l = 20 -> 22
      [] l = 22 -> 24
      [] l = 24 -> 26
      [] l = 26 -> 27
      [] l = 27 -> 28
      [] l = 28 -> 30
      [] l = 30 -> 12

Running == err = "none" /\ pc # Exit

GridIdle ==
    /\ gdata = <<>> /\ gdata0 = <<>> /\ gtime = <<>> /\ gcow = FALSE /\ gpc = "idle" /\ gfig = 0 /\ gi = 0 /\ gj = 0
    /\ gindex = 0 /\ gbin = 0 /\ gdeleted = {} /\ gplots = <<>> /\ gerr = "none"

\* line 10: data = pd.read_csv(...)
Init ==
    /\ data \in SeqsUpTo(Rows, MaxRows)
    /\ pc = 12
    /\ k = 0
    /\ timestamp = Undef
    /\ model = EmptyModel
    /\ simultaneous = <<>>
    /\ r = 0
    /\ executor = NoExecutor
    /\ start = Undef
    /\ result = NoResult
    /\ elapsed = Undef
    /\ stdout = <<>>
    /\ trace = <<>>
    /\ err = "none"
    /\ GridIdle

\* line 12: for timestamp in data["t"].unique()
L12_NextTimestamp ==
    /\ Running /\ pc = 12
    /\ k < Len(Unique(TCol(data)))
    /\ k' = k + 1
    /\ timestamp' = Unique(TCol(data))[k + 1]
    /\ pc' = 13
    /\ trace' = Append(trace, 12)
    /\ UNCHANGED <<data, model, simultaneous, r, executor, start, result, elapsed, stdout, err>>

L12_Exhausted ==
    /\ Running /\ pc = 12
    /\ k >= Len(Unique(TCol(data)))
    /\ pc' = Exit
    /\ trace' = Append(trace, 12)
    /\ UNCHANGED <<data, k, timestamp, model, simultaneous, r, executor, start, result, elapsed, stdout, err>>

\* variant: the text of the previous timestep is kept
L13_KeepModel ==
    /\ err = "none" /\ pc = 13
    /\ pc' = 14
    /\ trace' = Append(trace, 13)
    /\ UNCHANGED <<data, k, timestamp, model, simultaneous, r, executor, start, result, elapsed, stdout, err>>

\* line 13: model = ""
L13_ResetModel ==
    /\ Running /\ pc = 13
    /\ model' = EmptyModel
    /\ pc' = NextLine(13)
    /\ trace' = Append(trace, 13)
    /\ UNCHANGED <<data, k, timestamp, simultaneous, r, executor, start, result, elapsed, stdout, err>>

\* line 14: simultaneous = data[data["t"] == timestamp]
L14_Select ==
    /\ Running /\ pc = 14
    /\ simultaneous' = Simultaneous(data, timestamp)
    /\ r' = 0
    /\ pc' = NextLine(14)
    /\ trace' = Append(trace, 14)
    /\ UNCHANGED <<data, k, timestamp, model, executor, start, result, elapsed, stdout, err>>

\* line 16: for _, row in simultaneous.iterrows()
L16_NextRow ==
    /\ Running /\ pc = 16
    /\ r < Len(simultaneous)
    /\ r' = r + 1
    /\ pc' = 17
    /\ trace' = Append(trace, 16)
    /\ UNCHANGED <<data, k, timestamp, model, simultaneous, executor, start, result, elapsed, stdout, err>>

L16_RowsDone ==
    /\ Running /\ pc = 16
    /\ r >= Len(simultaneous)
    /\ pc' = 19
    /\ trace' = Append(trace, 16)
    /\ UNCHANGED <<data, k, timestamp, model, simultaneous, r, executor, start, result, elapsed, stdout, err>>

\* line 17: model += f'{p_close}::close({d1}, {d2}).\n'
L17_AppendFact ==
    /\ Running /\ pc = 17
    /\ model' = Append(model, FactLine(simultaneous[r]))
    /\ pc' = NextLine(17)
    /\ trace' = Append(trace, 17)
    /\ UNCHANGED <<data, k, timestamp, simultaneous, r, executor, start, result, elapsed, stdout, err>>

\* line 19: model += "unsafe :- close(X, Y).\n"
L19_AppendRule ==
    /\ Running /\ pc = 19
    /\ model' = Append(model, RuleLine)
    /\ pc' = NextLine(19)
    /\ trace' = Append(trace, 19)
    /\ UNCHANGED <<data, k, timestamp, simultaneous, r, executor, start, result, elapsed, stdout, err>>

\* line 20: model += "query(unsafe)."
L20_AppendQuery ==
    /\ Running /\ pc = 20
    /\ model' = Append(model, QueryLine)
    /\ pc' = NextLine(20)
    /\ trace' = Append(trace, 20)
    /\ UNCHANGED <<data, k, timestamp, simultaneous, r, executor, start, result, elapsed, stdout, err>>

\* line 22: print(model)
L22_PrintModel ==
    /\ Running /\ pc = 22
    /\ stdout' = Append(stdout, [kind |-> "model", t |-> timestamp, text |-> model])
    /\ pc' = NextLine(22)
    /\ trace' = Append(trace, 22)
    /\ UNCHANGED <<data, k, timestamp, model, simultaneous, r, executor, start, result, elapsed, err>>

\* line 24: executor = get_evaluatable().create_from(PrologString(model))
\* An exception of the library is not caught: the script ends.
L24_CreateFrom ==
    /\ Running /\ pc = 24
    /\ trace' = Append(trace, 24)
    /\ LET ex == CreateFrom(model) IN
         IF ex.ok
         THEN /\ executor' = ex
              /\ pc' = NextLine(24)
              /\ err' = err
         ELSE /\ err' = ex.error
              /\ UNCHANGED <<executor, pc>>
    /\ UNCHANGED <<data, k, timestamp, model, simultaneous, r, start, result, elapsed, stdout>>

\* line 26: start = time()
L26_StartTimer ==
    /\ Running /\ pc = 26
    /\ start' = Time
    /\ pc' = NextLine(26)
    /\ trace' = Append(trace, 26)
    /\ UNCHANGED <<data, k, timestamp, model, simultaneous, r, executor, result, elapsed, stdout, err>>

\* line 27: result = executor.evaluate()
L27_Evaluate ==
    /\ Running /\ pc = 27
    /\ trace' = Append(trace, 27)
    /\ LET res == Evaluate(executor) IN
         IF res.ok
         THEN /\ result' = res
              /\ pc' = NextLine(27)
              /\ err' = err
         ELSE /\ err' = res.error
              /\ UNCHANGED <<result, pc>>
    /\ UNCHANGED <<data, k, timestamp, model, simultaneous, r, executor, start, elapsed, stdout>>

\* line 28: elapsed = time() - start
L28_StopTimer ==
    /\ Running /\ pc = 28
    /\ elapsed' = Time - start
    /\ pc' = NextLine(28)
    /\ trace' = Append(trace, 28)
    /\ UNCHANGED <<data, k, timestamp, model, simultaneous, r, executor, start, result, stdout, err>>

\* line 30: print(result, elapsed)
L30_PrintResult ==
    /\ Running /\ pc = 30
    /\ stdout' = Append(stdout, [kind |-> "result", t |-> timestamp,
                                 num |-> result.num, den |-> result.den,
                                 elapsed |-> elapsed])
    /\ pc' = NextLine(30)
    /\ trace' = Append(trace, 30)
    /\ UNCHANGED <<data, k, timestamp, model, simultaneous, r, executor, start, result, elapsed, err>>

Next ==
    \/ (L12_NextTimestamp /\ UNCHANGED gvars)
    \/ (L12_Exhausted /\ UNCHANGED gvars)
    \/ (L13_ResetModel /\ UNCHANGED gvars)
    \/ (L14_Select /\ UNCHANGED gvars)
    \/ (L16_NextRow /\ UNCHANGED gvars)
    \/ (L16_RowsDone /\ UNCHANGED gvars)
    \/ (L17_AppendFact /\ UNCHANGED gvars)
    \/ (L19_AppendRule /\ UNCHANGED gvars)
    \/ (L20_AppendQuery /\ UNCHANGED gvars)
    \/ (L22_PrintModel /\ UNCHANGED gvars)
    \/ (L24_CreateFrom /\ UNCHANGED gvars)
    \/ (L26_StartTimer /\ UNCHANGED gvars)
    \/ (L27_Evaluate /\ UNCHANGED gvars)
    \/ (L28_StopTimer /\ UNCHANGED gvars)
    \/ (L30_PrintResult /\ UNCHANGED gvars)

Spec == Init /\ [][Next]_vars

(***************************************************************************)
(* Properties of problog_test.py (checked under Spec)                      *)
(*                                                                         *)
(* The definitions below describe the expected behaviour directly from the *)
(* input file `data`; they do not use the operators of the model above.    *)
(***************************************************************************)
\* indices of the input rows whose t equals ts (a missing t equals nothing)
GroupIdx(ts) == {n \in 1..Len(data) : ts # NaN /\ data[n].t # NaN /\ data[n].t = ts}

\* the distinct t values of the file (all missing values count as one)
DistinctT == {data[n].t : n \in 1..Len(data)}
FirstIdx(t) == CHOOSE n \in 1..Len(data) :
                  data[n].t = t /\ \A m \in 1..(n - 1) : data[m].t # t

RECURSIVE ExpectedFacts(_, _)
ExpectedFacts(ts, n) ==
    IF n = 0 THEN <<>>
    ELSE IF n \in GroupIdx(ts)
         THEN Append(ExpectedFacts(ts, n - 1),
                     <<"close", data[n].p, data[n].d1, data[n].d2>>)
         ELSE ExpectedFacts(ts, n - 1)

ExpectedText(ts) ==
    ExpectedFacts(ts, Len(data)) \o <<<<"unsafe :- close(X, Y).">>, <<"query(unsafe).">>>>

RECURSIVE ProdOneMinus(_)
ProdOneMinus(S) ==
    IF S = {} THEN 1
    ELSE LET n == CHOOSE x \in S : TRUE IN (Den - data[n].p) * ProdOneMinus(S \ {n})

\* 1 - PROD(1 - p_i) over the rows of the group, as a fraction over Den^n
NoisyOrNum(ts) == Pow(Den, Cardinality(GroupIdx(ts))) - ProdOneMinus(GroupIdx(ts))
NoisyOrDen(ts) == Pow(Den, Cardinality(GroupIdx(ts)))

Printed(kind) == SelectSeq(stdout, LAMBDA e : e.kind = kind)
Crashed == err # "none"
Terminated == pc = Exit \/ Crashed

\* the lines of one iteration after the text is assembled
TailLines == <<22, 24, 26, 27, 28, 30>>
TailTrace == SelectSeq(trace, LAMBDA l : l \in {22, 24, 26, 27, 28, 30})

\* C1: every probability the script prints for a timestep equals
\* 1 - PROD(1 - p_i) over all rows of that timestep's group, rows that repeat
\* a (d1, d2) pair included.
C1_NoisyOr ==
    \A n \in 1..Len(stdout) :
        stdout[n].kind = "result" =>
            /\ \A m \in GroupIdx(stdout[n].t) : data[m].p \in 0..Den
            /\ stdout[n].num * NoisyOrDen(stdout[n].t) = NoisyOrNum(stdout[n].t) * stdout[n].den

\* a group with the pair (a, b) twice, both rows at the same probability
\* strictly between 0 and 1, was reported with a probability above that of
\* one row and below 1
C1_Witness ==
    \E n \in 1..Len(stdout) :
        /\ stdout[n].kind = "result"
        /\ Cardinality(GroupIdx(stdout[n].t)) = 2
        /\ \A m \in GroupIdx(stdout[n].t) :
              /\ data[m].p = 1 /\ data[m].d1 = "a" /\ data[m].d2 = "b"
              /\ stdout[n].num * Den > data[m].p * stdout[n].den
        /\ stdout[n].num < stdout[n].den

\* C2 (as claimed): when the run has ended, every distinct timestep of the
\* file has been processed, whether or not an earlier timestep failed.
C2_ErrorsIsolated ==
    Terminated =>
        \A t \in DistinctT : \E n \in 1..Len(stdout) :
            stdout[n].kind = "model" /\ stdout[n].t = t

\* C3 (as claimed): a group with a p_close outside [0,1] ends in a
\* DomainError, and its text is never handed to the evaluator.
C3_DomainError ==
    (\E n \in 1..Len(model) : IsFact(model[n]) /\ model[n][2] \notin 0..Den) =>
        /\ pc \notin {24, 26, 27}
        /\ (Crashed => err = "DomainError")

\* C4: the timesteps are processed one at a time, each distinct t at most
\* once and in the order of first appearance in the file; a run that reaches
\* the end of the loop has processed every distinct t.
C4_FileOrder ==
    LET P == Printed("model") IN
    /\ \A a, b \in 1..Len(P) : a < b => FirstIdx(P[a].t) < FirstIdx(P[b].t)
    /\ \A a \in 1..Len(P) : \A t \in DistinctT :
          FirstIdx(t) < FirstIdx(P[a].t) => \E b \in 1..(a - 1) : P[b].t = t
    /\ \A n \in 1..Len(stdout) :
          stdout[n].kind = "result" =>
              n > 1 /\ stdout[n - 1].kind = "model" /\ stdout[n - 1].t = stdout[n].t
    /\ \A n \in 1..(Len(stdout) - 1) :
          stdout[n].kind = "model" =>
              stdout[n + 1].kind = "result" /\ stdout[n + 1].t = stdout[n].t
    /\ (pc = Exit => {P[a].t : a \in 1..Len(P)} = DistinctT)

\* the file has t = 1, 2, 1 and the run has processed 1 and then 2
C4_Witness ==
    /\ pc = Exit
    /\ Len(data) = 3 /\ data[1].t = 1 /\ data[2].t = 2 /\ data[3].t = 1
    /\ Len(stdout) = 4

\* C5: the text printed and handed to the evaluator for timestep t is the
\* facts of the rows whose t equals that timestep, in row order, then the
\* rule, then the query, and nothing else.
C5_ProgramText ==
    /\ pc \in {22, 24} => model = ExpectedText(timestamp)
    /\ \A n \in 1..Len(stdout) :
          stdout[n].kind = "model" => stdout[n].text = ExpectedText(stdout[n].t)

\* the second timestep's text is about to be compiled; the file has rows of
\* another timestep before and after one of its rows
C5_Witness ==
    /\ pc = 24 /\ k = 2
    /\ Len(data) = 3 /\ data[1].t # timestamp /\ data[2].t = timestamp
    /\ Len(model) = 3

\* the (d1, d2, p) rows of a timestep's group, in row order
RECURSIVE GroupContent(_, _)
GroupContent(ts, n) ==
    IF n = 0 THEN <<>>
    ELSE IF n \in GroupIdx(ts)
         THEN Append(GroupContent(ts, n - 1), <<data[n].d1, data[n].d2, data[n].p>>)
         ELSE GroupContent(ts, n - 1)

SameGroup(t1, t2) == GroupContent(t1, Len(data)) = GroupContent(t2, Len(data))

\* C6: two timesteps whose groups consist of the same rows yield the same
\* program text and the same probability, wherever they occur in the run.
C6_Idempotent ==
    \A a, b \in 1..Len(stdout) :
        (stdout[a].kind = stdout[b].kind /\ SameGroup(stdout[a].t, stdout[b].t)) =>
            IF stdout[a].kind = "model"
            THEN stdout[a].text = stdout[b].text
            ELSE stdout[a].num * stdout[b].den = stdout[b].num * stdout[a].den

\* two different timesteps with the same rows have both been reported
C6_Witness ==
    \E a, b \in 1..Len(stdout) :
        /\ a < b
        /\ stdout[a].kind = "result" /\ stdout[b].kind = "result"
        /\ stdout[a].t # stdout[b].t
        /\ SameGroup(stdout[a].t, stdout[b].t)
        /\ stdout[a].num > 0

\* C7 (as claimed): a program without any close fact does not make the run
\* fail, and the probability reported for an empty group is 0.
C7_EmptyGroupZero ==
    /\ (Crashed /\ pc \in {24, 27}) => FactsOf(model) # <<>>
    /\ \A n \in 1..Len(stdout) :
          (stdout[n].kind = "result" /\ GroupIdx(stdout[n].t) = {}) => stdout[n].num = 0

\* C8 (as claimed): a text with an identifier that is not a ground term is
\* never handed to the evaluator; the failure is a ProgramConstructionError.
C8_ConstructionError ==
    (\E n \in 1..Len(model) :
        IsFact(model[n]) /\ (model[n][3] \notin Atoms \/ model[n][4] \notin Atoms)) =>
        /\ pc # 24
        /\ (Crashed => err = "ProgramConstructionError")

\* C9: after the text is assembled the statements run in the order print
\* text, compile, start timer, evaluate, stop timer, print result, each once
\* per timestep; the elapsed time spans the timer start and the evaluation
\* only; the output alternates between one text and one result line, and a
\* run that reaches the end of the loop has printed one of each per distinct
\* timestep.
C9_EventOrder ==
    /\ \A n \in 1..Len(TailTrace) : TailTrace[n] = TailLines[((n - 1) % 6) + 1]
    /\ pc = 30 => SubSeq(trace, start + 1, start + elapsed) = <<26, 27>>
    /\ \A n \in 1..Len(stdout) :
          /\ stdout[n].kind = (IF n % 2 = 1 THEN "model" ELSE "result")
          /\ stdout[n].kind = "result" => stdout[n].elapsed = 2
    /\ (pc \in {12, Exit} /\ ~Crashed) => Len(stdout) = 2 * k
    /\ pc = Exit => Len(stdout) = 2 * Cardinality(DistinctT)

\* two timesteps have been processed without error and the loop has ended
C9_Witness ==
    /\ pc = Exit
    /\ Len(stdout) = 4
    /\ Len(TailTrace) = 12

(***************************************************************************)
(* viz_simfreq.py                                                          *)
(***************************************************************************)
GridSize == 7
NCols == 42
Unit == 10
GNaN == -1

NSamples == 2
NSeeds == 5

\* sample values of a frequency column, in tenths: 0.0, 0.5, 1.0, 1.5,
\* 200.0 and a missing value
GVals == <<0, 5, 10, 15, 2000, GNaN>>

Columns == 0..(NCols - 1)

\* sample values of the Time column, in seconds, and a missing value
GTimes == {0, 60, 61, GNaN}

\* the bound 60.0 of data["Time"] <= 60.0
TimeLimit == 60

\* data[data["Time"] <= 60.0]: the rows that are handed to lineplot; a
\* missing Time satisfies no comparison
PlotRows(time) == {n \in 1..Len(time) : time[n] # GNaN /\ time[n] <= TimeLimit}

\* the values of a column in the rows of S, in row order
RECURSIVE TakeRows(_, _, _)
TakeRows(col, S, n) ==
    IF n = 0 THEN <<>>
    ELSE IF n \in S THEN Append(TakeRows(col, S, n - 1), col[n])
         ELSE TakeRows(col, S, n - 1)

GData(seed) ==
    [c \in Columns |->
        [n \in 1..NSamples |-> GVals[((c + 2 * n + seed) % Len(GVals)) + 1]]]

\* data[col][data[col] >= 1.0] = 1
SetOnes(col) == [n \in 1..Len(col) |->
                    IF col[n] # GNaN /\ col[n] >= Unit THEN Unit ELSE col[n]]

\* data[col][data[col] < 1.0] = 0
SetZeros(col) == [n \in 1..Len(col) |->
                    IF col[n] # GNaN /\ col[n] < Unit THEN 0 ELSE col[n]]

\* data[c][mask] = v is a chained assignment: the masked write is made on
\* the Series that data[c] returns.  Whether that Series shares its values
\* with the frame is decided by the pandas installation, once for the whole
\* run: without copy-on-write the write reaches the frame, with
\* copy-on-write (gcow) it goes to a temporary and the frame keeps its
\* values.
ChainedAssign(d, c, written) == IF gcow THEN d ELSE [d EXCEPT ![c] = written]

\* if i == j or i < j: delaxes, continue
Skipped(i, j) == i = j \/ i < j

\* the loop pair for i in range(7): for j in range(7)
NextI(i, j) == IF j + 1 < GridSize THEN i ELSE i + 1
NextJ(i, j) == IF j + 1 < GridSize THEN j + 1 ELSE 0

YLim(f) == IF f = 1 THEN <<1, 200>> ELSE <<0, 1>>

GRunning == gerr = "none"

ProblogIdle ==
    /\ data = <<>> /\ pc = Exit /\ k = 0 /\ timestamp = Undef /\ model = EmptyModel
    /\ simultaneous = <<>> /\ r = 0 /\ executor = NoExecutor /\ start = Undef
    /\ result = NoResult /\ elapsed = Undef /\ stdout = <<>> /\ trace = <<>>
    /\ err = "none"

\* lines 7 and 13: the CSV is read and the first 7x7 figure exists; the
\* pandas installation either has copy-on-write or has not
InitGrid ==
    /\ \E seed \in 0..(NSeeds - 1) : gdata = GData(seed)
    /\ gdata0 = gdata
    /\ gtime \in [1..NSamples -> GTimes]
    /\ gcow \in BOOLEAN
    /\ gpc = "index0"
    /\ gfig = 1
    /\ gi = 0
    /\ gj = 0
    /\ gindex = Undef
    /\ gbin = 0
    /\ gdeleted = {}
    /\ gplots = <<>>
    /\ gerr = "none"
    /\ ProblogIdle

\* index = 0, then the loops start at i = 0, j = 0
ResetIndex(f) ==
    /\ GRunning /\ gpc = "index0" /\ gfig = f
    /\ gindex' = 0
    /\ gi' = 0
    /\ gj' = 0
    /\ gpc' = "cells"
    /\ UNCHANGED <<gdata, gdata0, gtime, gcow, gfig, gbin, gdeleted, gplots, gerr>>

\* a cell on or above the diagonal: fig.delaxes(axes[i, j]); continue
CellDelete(f) ==
    /\ GRunning /\ gpc = "cells" /\ gfig = f
    /\ gi < GridSize
    /\ Skipped(gi, gj)
    /\ gdeleted' = gdeleted \cup {<<f, gi, gj>>}
    /\ gi' = NextI(gi, gj)
    /\ gj' = NextJ(gi, gj)
    /\ UNCHANGED <<gdata, gdata0, gtime, gcow, gpc, gfig, gindex, gbin, gplots, gerr>>

\* a cell below the diagonal: sns.lineplot(data[data["Time"] <= 60.0], ...,
\* x="Time", y=f"f{index}") on the rows whose Time is at most 60, the axis
\* limits, index += 2.  A column the data does not have is an error of the
\* plotting library, which ends the script.
CellPlot(f) ==
    /\ GRunning /\ gpc = "cells" /\ gfig = f
    /\ gi < GridSize
    /\ ~Skipped(gi, gj)
    /\ IF gindex \in Columns
       THEN /\ gplots' = Append(gplots, [fig |-> f, i |-> gi, j |-> gj, col |-> gindex,
                                         x |-> TakeRows(gtime, PlotRows(gtime), Len(gtime)),
                                         y |-> TakeRows(gdata[gindex], PlotRows(gtime),
                                                        Len(gtime)),
                                         ylim |-> YLim(f)])
            /\ gindex' = gindex + 2
            /\ gi' = NextI(gi, gj)
            /\ gj' = NextJ(gi, gj)
            /\ gerr' = gerr
       ELSE /\ gerr' = "NoSuchColumn"
            /\ UNCHANGED <<gplots, gindex, gi, gj>>
    /\ UNCHANGED <<gdata, gdata0, gtime, gcow, gpc, gfig, gbin, gdeleted>>

\* lines 19..34
G19_ResetIndex == ResetIndex(1)
G22_Delaxes == CellDelete(1)
G26_Plot == CellPlot(1)

\* lines 38..47: the first figure is saved, the second one is created
G42_SaveAndNewFigure ==
    /\ GRunning /\ gpc = "cells" /\ gfig = 1
    /\ gi >= GridSize
    /\ gfig' = 2
    /\ gbin' = 0
    /\ gpc' = "binloop"
    /\ UNCHANGED <<gdata, gdata0, gtime, gcow, gi, gj, gindex, gdeleted, gplots, gerr>>

\* line 48: for index in range(42)
G48_NextColumn ==
    /\ GRunning /\ gpc = "binloop"
    /\ gbin < NCols
    /\ gindex' = gbin
    /\ gbin' = gbin + 1
    /\ gpc' = "ones"
    /\ UNCHANGED <<gdata, gdata0, gtime, gcow, gfig, gi, gj, gdeleted, gplots, gerr>>

G48_ColumnsDone ==
    /\ GRunning /\ gpc = "binloop"
    /\ gbin >= NCols
    /\ gpc' = "index0"
    /\ UNCHANGED <<gdata, gdata0, gtime, gcow, gfig, gi, gj, gindex, gbin, gdeleted, gplots, gerr>>

\* line 49: data[f"f{index}"][data[f"f{index}"] >= 1.0] = 1
G49_SetOnes ==
    /\ GRunning /\ gpc = "ones"
    /\ gdata' = ChainedAssign(gdata, gindex, SetOnes(gdata[gindex]))
    /\ gpc' = "zeros"
    /\ UNCHANGED <<gdata0, gtime, gcow, gfig, gi, gj, gindex, gbin, gdeleted, gplots, gerr>>

\* line 50: data[f"f{index}"][data[f"f{index}"] < 1.0] = 0
G50_SetZeros ==
    /\ GRunning /\ gpc = "zeros"
    /\ gdata' = ChainedAssign(gdata, gindex, SetZeros(gdata[gindex]))
    /\ gpc' = "binloop"
    /\ UNCHANGED <<gdata0, gtime, gcow, gfig, gi, gj, gindex, gbin, gdeleted, gplots, gerr>>

\* lines 52..67
G52_ResetIndex == ResetIndex(2)
G55_Delaxes == CellDelete(2)
G59_Plot == CellPlot(2)

\* lines 71..75: the second figure is saved and the script ends
G75_Save ==
    /\ GRunning /\ gpc = "cells" /\ gfig = 2
    /\ gi >= GridSize
    /\ gpc' = "done"
    /\ UNCHANGED <<gdata, gdata0, gtime, gcow, gfig, gi, gj, gindex, gbin, gdeleted, gplots, gerr>>

NextGrid ==
    \/ (G19_ResetIndex /\ UNCHANGED pvars)
    \/ (G22_Delaxes /\ UNCHANGED pvars)
    \/ (G26_Plot /\ UNCHANGED pvars)
    \/ (G42_SaveAndNewFigure /\ UNCHANGED pvars)
    \/ (G48_NextColumn /\ UNCHANGED pvars)
    \/ (G48_ColumnsDone /\ UNCHANGED pvars)
    \/ (G49_SetOnes /\ UNCHANGED pvars)
    \/ (G50_SetZeros /\ UNCHANGED pvars)
    \/ (G52_ResetIndex /\ UNCHANGED pvars)
    \/ (G55_Delaxes /\ UNCHANGED pvars)
    \/ (G59_Plot /\ UNCHANGED pvars)
    \/ (G75_Save /\ UNCHANGED pvars)

SpecGrid == InitGrid /\ [][NextGrid]_vars

(***************************************************************************)
(* Properties of viz_simfreq.py (checked under SpecGrid)                   *)
(***************************************************************************)
PlotsOf(f) == SelectSeq(gplots, LAMBDA e : e.fig = f)
DeletedOf(f) == {c \in gdeleted : c[1] = f}

\* position of cell (i, j), i > j, among the cells below the diagonal in
\* row-major order, counted from 0
Rank(i, j) == (i * (i - 1)) \div 2 + j

PassOver(f) == IF f = 1 THEN gfig = 2 ELSE gpc = "done"

\* the grid part of C10: in both passes exactly the 21 cells with i > j are
\* drawn and the 28 others deleted; the k-th drawn cell (from 0, row-major)
\* shows column f(2k), so the drawn columns are f0, f2, ..., f40, each once,
\* no column index of 42 or more is used and no odd column is ever plotted
GridCells ==
    /\ gerr = "none"
    /\ \A f \in {1, 2} :
          LET P == PlotsOf(f) IN
          /\ \A n \in 1..Len(P) :
                /\ P[n].i > P[n].j
                /\ Rank(P[n].i, P[n].j) = n - 1
                /\ P[n].col = 2 * (n - 1)
                /\ P[n].col < NCols
          /\ \A c \in DeletedOf(f) : c[2] <= c[3]
          /\ PassOver(f) =>
                /\ Len(P) = 21
                /\ Cardinality(DeletedOf(f)) = 28
                /\ {P[n].col : n \in 1..Len(P)} = {2 * m : m \in 0..20}
    /\ \A n \in 1..Len(gplots) : gplots[n].col % 2 = 0

\* the binarization part of C10: once the threshold loop has run, every
\* column f0..f41, the odd ones included, holds 1 where it held a value
\* >= 1.0 and 0 where it held a value < 1.0
ColumnsBinarized ==
    (gfig = 2 /\ gpc \in {"index0", "cells", "done"}) =>
        \A c \in Columns : \A n \in 1..Len(gdata0[c]) :
            gdata[c][n] = (IF gdata0[c][n] = GNaN THEN GNaN
                           ELSE IF gdata0[c][n] >= Unit THEN Unit ELSE 0)

\* C10 (as claimed): in each of the two grid passes the 21 cells with i > j
\* are drawn with the columns f0, f2, ..., f40 in row-major order and the 28
\* other axes deleted, the index used never reaches 42, and the odd columns
\* f1..f41 are binarized by the threshold loop but never plotted.
C10_Grid == GridCells /\ ColumnsBinarized

====
